---- MODULE Spec2Model ----
(***************************************************************************)
(* Model of the mini-React core: reconciler.ts, hooks.ts, dom.ts,          *)
(* setup.ts and elements.ts / render.ts (src/unnamed/part_000).            *)
(*                                                                         *)
(* Encoding of JavaScript values:                                          *)
(*   - a Path is the sequence of its '.'-separated segments ("0.a.1" is    *)
(*     <<"0","a","1">>); keys in the model contain no '.', so              *)
(*     path.startsWith(p + ".") is "p is a proper prefix of path";         *)
(*   - null / undefined objects are records whose discriminating field     *)
(*     (kind, type, t) says so;                                            *)
(*   - DOM nodes, hook arrays and Instances are heap objects: they carry   *)
(*     an identity (index in dom, id field).                               *)
(***************************************************************************)
EXTENDS Integers, Sequences, FiniteSets, TLC

(***************************************************************************)
(* Bounds                                                                  *)
(***************************************************************************)
MaxSets == 3
MaxVal == 2
MaxSetups == 2
MaxRemountSets == 1

(***************************************************************************)
(* Generic helpers                                                         *)
(***************************************************************************)
IsProperPrefix(p, q) == Len(p) < Len(q) /\ SubSeq(q, 1, Len(p)) = p

RECURSIVE IndexOf(_, _, _)
IndexOf(s, x, i) ==
  IF i > Len(s) THEN 0 ELSE IF s[i] = x THEN i ELSE IndexOf(s, x, i + 1)

Without(s, x) == SelectSeq(s, LAMBDA y : y # x)

\* String(n) / `${n}` for the small naturals of the model.
DecimalDigits == <<"0", "1", "2", "3", "4", "5", "6", "7", "8", "9">>
NumToString(n) == IF n < 10 THEN DecimalDigits[n + 1] ELSE "big"

(***************************************************************************)
(* Keys, virtual nodes                                                     *)
(***************************************************************************)
NoKey == [t |-> "null"]
NumKey(n) == [t |-> "number", n |-> n]
StrKey(s) == [t |-> "string", s |-> s]
KeyToString(key) == IF key.t = "number" THEN NumToString(key.n) ELSE key.s

TEXT_ELEMENT == "TEXT_ELEMENT"
Fragment == "Fragment"
ComponentTypes == {"App", "Counter", "Other", "Pair", "Boom", "Eff", "Lazy"}

NoNode == [type |-> "null"]
NoAttrs == <<>>

\* createTextElement (part_000:36-45)
createTextElement(text) ==
  [type |-> TEXT_ELEMENT, key |-> NoKey,
   props |-> [children |-> <<>>, nodeValue |-> text, attrs |-> NoAttrs]]

\* createElement (part_000:51-105); children are already flattened VNodes.
createElement(type, key, attrs, children) ==
  [type |-> type, key |-> key,
   props |-> [children |-> children, nodeValue |-> "", attrs |-> attrs]]

\* createChildPath (part_000:111-124)
createChildPath(parentPath, key, index) ==
  IF key.t # "null"
    THEN Append(parentPath, KeyToString(key))
    ELSE Append(parentPath, NumToString(index))

(***************************************************************************)
(* Host tree (the DOM).  w.dom is the heap of nodes, a node's id is its    *)
(* index; id 0 is null; CONTAINER is the element handed to setup.          *)
(***************************************************************************)
CONTAINER == 1
NoHm == [created |-> 0, inserted |-> 0, removed |-> 0, written |-> 0]

NewDomNode(tag, text) ==
  [tag |-> tag, text |-> text, attrs |-> <<>>, listeners |-> {},
   parent |-> 0, kids |-> <<>>]

Throw(w) == [w EXCEPT !.thrown = TRUE]

Detach(dom, n) ==
  IF dom[n].parent = 0 THEN dom
  ELSE [dom EXCEPT ![dom[n].parent].kids = Without(@, n), ![n].parent = 0]

\* document.createElement / document.createTextNode
DomCreate(w, tag, text) ==
  IF w.thrown THEN w
  ELSE [w EXCEPT !.dom = Append(@, NewDomNode(tag, text)),
                 !.hm.created = @ + 1]

\* parent.appendChild(n)
appendChild(w, parent, n) ==
  IF w.thrown THEN w
  ELSE LET d == Detach(w.dom, n) IN
       [w EXCEPT !.dom = [d EXCEPT ![parent].kids = Append(@, n),
                                   ![n].parent = parent],
                 !.hm.inserted = @ + 1]

\* parent.insertBefore(n, anchor): NotFoundError when anchor is not a child
insertBefore(w, parent, n, anchor) ==
  IF w.thrown THEN w
  ELSE IF w.dom[anchor].parent # parent THEN Throw(w)
  ELSE IF n = anchor THEN w
  ELSE LET d == Detach(w.dom, n)
           ks == d[parent].kids
           i == IndexOf(ks, anchor, 1)
       IN [w EXCEPT !.dom = [d EXCEPT
                 ![parent].kids = SubSeq(ks, 1, i - 1) \o <<n>> \o SubSeq(ks, i, Len(ks)),
                 ![n].parent = parent],
               !.hm.inserted = @ + 1]

\* parent.removeChild(n), n a child of parent
removeChild(w, parent, n) ==
  IF w.thrown THEN w
  ELSE [w EXCEPT !.dom = Detach(@, n), !.hm.removed = @ + 1]

\* node.nextSibling
nextSibling(dom, n) ==
  LET p == dom[n].parent IN
  IF p = 0 THEN 0
  ELSE LET i == IndexOf(dom[p].kids, n, 1) IN
       IF i = Len(dom[p].kids) THEN 0 ELSE dom[p].kids[i + 1]

(***************************************************************************)
(* dom.ts: props                                                           *)
(***************************************************************************)
IsHandlerKey(key) == key \in {"onClick"}
EventType(key) == IF key = "onClick" THEN "click" ELSE key

\* one key of setDomProps (dom.ts:10-63); values are strings or handlers
SetOneProp(node, key, value) ==
  IF IsHandlerKey(key)
    THEN [node EXCEPT !.listeners = @ \cup {<<EventType(key), value>>}]
  ELSE IF key = "className"
    THEN [node EXCEPT !.attrs = [k \in (DOMAIN @) \cup {"class"} |->
                                   IF k = "class" THEN value ELSE @[k]]]
  ELSE [node EXCEPT !.attrs = [k \in (DOMAIN @) \cup {key} |->
                                   IF k = key THEN value ELSE @[k]]]

RECURSIVE SetPropsOf(_, _, _)
SetPropsOf(node, props, keys) ==
  IF keys = {} THEN node
  ELSE LET k == CHOOSE x \in keys : TRUE IN
       SetPropsOf(SetOneProp(node, k, props[k]), props, keys \ {k})

\* setDomProps (dom.ts:9-64)
setDomProps(w, d, props) ==
  IF w.thrown THEN w
  ELSE [w EXCEPT !.dom[d] = SetPropsOf(@, props, DOMAIN props),
                 !.hm.written = @ + Cardinality(DOMAIN props)]

\* the keys updateDomProps touches: prevValue !== nextValue (dom.ts:78-90)
ChangedKeys(prevProps, nextProps) ==
  {k \in (DOMAIN prevProps) \cup (DOMAIN nextProps) :
     \/ k \notin DOMAIN prevProps
     \/ k \notin DOMAIN nextProps
     \/ prevProps[k] # nextProps[k]}

\* one changed key of updateDomProps (dom.ts:92-162)
UpdateOneProp(node, key, prevProps, nextProps) ==
  LET hasPrev == key \in DOMAIN prevProps
      hasNext == key \in DOMAIN nextProps
  IN
  IF IsHandlerKey(key)
    THEN LET n1 == IF hasPrev
                     THEN [node EXCEPT !.listeners = @ \ {<<EventType(key), prevProps[key]>>}]
                     ELSE node
         IN IF hasNext
              THEN [n1 EXCEPT !.listeners = @ \cup {<<EventType(key), nextProps[key]>>}]
              ELSE n1
  ELSE IF key = "className"
    THEN [node EXCEPT !.attrs = [k \in (DOMAIN @) \cup {"class"} |->
            IF k = "class" THEN (IF hasNext THEN nextProps[key] ELSE "") ELSE @[k]]]
  ELSE IF ~hasNext
    THEN [node EXCEPT !.attrs = [k \in (DOMAIN @) \ {key} |-> @[k]]]
  ELSE [node EXCEPT !.attrs = [k \in (DOMAIN @) \cup {key} |->
            IF k = key THEN nextProps[key] ELSE @[k]]]

RECURSIVE UpdatePropsOf(_, _, _, _)
UpdatePropsOf(node, prevProps, nextProps, keys) ==
  IF keys = {} THEN node
  ELSE LET k == CHOOSE x \in keys : TRUE IN
       UpdatePropsOf(UpdateOneProp(node, k, prevProps, nextProps),
                     prevProps, nextProps, keys \ {k})

\* updateDomProps (dom.ts:70-164)
updateDomProps(w, d, prevProps, nextProps) ==
  IF w.thrown THEN w
  ELSE LET ks == ChangedKeys(prevProps, nextProps) IN
       [w EXCEPT !.dom[d] = UpdatePropsOf(@, prevProps, nextProps, ks),
                 !.hm.written = @ + Cardinality(ks)]

(***************************************************************************)
(* dom.ts: Instances and their host nodes                                  *)
(***************************************************************************)
HOST == "host"
TEXT == "text"
COMPONENT == "component"
FRAGMENT == "fragment"
NoInstance == [kind |-> "null"]

RECURSIVE getDomNodes(_)
RECURSIVE DomNodesOfChildren(_, _)
\* getDomNodes (dom.ts:170-199)
getDomNodes(instance) ==
  IF instance.kind = "null" THEN <<>>
  ELSE IF instance.kind \in {HOST, TEXT}
    THEN (IF instance.dom # 0 THEN <<instance.dom>> ELSE <<>>)
  ELSE DomNodesOfChildren(instance.children, 1)
DomNodesOfChildren(children, i) ==
  IF i > Len(children) THEN <<>>
  ELSE getDomNodes(children[i]) \o DomNodesOfChildren(children, i + 1)

RECURSIVE getFirstDom(_)
RECURSIVE FirstDomFrom(_, _)
\* getFirstDom (dom.ts:204-227)
getFirstDom(instance) ==
  IF instance.kind = "null" THEN 0
  ELSE IF instance.kind \in {HOST, TEXT} THEN instance.dom
  ELSE FirstDomFrom(instance.children, 1)
FirstDomFrom(children, i) ==
  IF i > Len(children) THEN 0
  ELSE LET firstDom == getFirstDom(children[i]) IN
       IF firstDom # 0 THEN firstDom ELSE FirstDomFrom(children, i + 1)

\* getFirstDomFromChildren (dom.ts:232-242)
getFirstDomFromChildren(children) == FirstDomFrom(children, 1)

RECURSIVE InsertNodes(_, _, _, _, _)
InsertNodes(w, parentDom, nodes, anchor, i) ==
  IF i > Len(nodes) THEN w
  ELSE InsertNodes(IF anchor # 0 THEN insertBefore(w, parentDom, nodes[i], anchor)
                                 ELSE appendChild(w, parentDom, nodes[i]),
                   parentDom, nodes, anchor, i + 1)

\* insertInstance (dom.ts:248-275)
insertInstance(w, parentDom, instance, anchor) ==
  InsertNodes(w, parentDom, getDomNodes(instance), anchor, 1)

RECURSIVE RemoveNodes(_, _, _, _)
RemoveNodes(w, parentDom, nodes, i) ==
  IF i > Len(nodes) THEN w
  ELSE RemoveNodes(IF w.dom[nodes[i]].parent = parentDom
                     THEN removeChild(w, parentDom, nodes[i]) ELSE w,
                   parentDom, nodes, i + 1)

\* removeInstance (dom.ts:280-293)
removeInstance(w, parentDom, instance) ==
  RemoveNodes(w, parentDom, getDomNodes(instance), 1)

(***************************************************************************)
(* JavaScript values held in hook slots                                    *)
(***************************************************************************)
Undefined == [t |-> "undefined"]
Null == [t |-> "null"]
Num(n) == [t |-> "number", n |-> n]
ArrayOf(a) == [t |-> "array", a |-> a]
\* Object.is on the values of the model (numbers without NaN / -0)
ObjectIs(a, b) == a = b

Put(f, k, v) == [x \in (DOMAIN f) \cup {k} |-> IF x = k THEN v ELSE f[x]]
Drop(f, ks) == [x \in (DOMAIN f) \ ks |-> f[x]]

\* hooks[cursor] = v on a JavaScript array (holes read as undefined)
RECURSIVE ArrayWrite(_, _, _)
ArrayWrite(slots, cursor, v) ==
  IF cursor < Len(slots) THEN [slots EXCEPT ![cursor + 1] = v]
  ELSE IF cursor = Len(slots) THEN Append(slots, v)
  ELSE ArrayWrite(Append(slots, Undefined), cursor, v)

(***************************************************************************)
(* context.hooks getters (context.ts is not part of the sources; modelled  *)
(* from the data model: the top of the active-invocation stack, its        *)
(* cursor, and the get-or-create slot array of its Path)                   *)
(***************************************************************************)
currentPath(w) == w.componentStack[Len(w.componentStack)]
currentCursor(w) ==
  IF currentPath(w) \in DOMAIN w.cursor THEN w.cursor[currentPath(w)] ELSE 0
\* the Hook Store after the currentHooks getter ran
currentHooks(w) ==
  IF currentPath(w) \in DOMAIN w.state THEN w
  ELSE [w EXCEPT !.state = Put(@, currentPath(w), [id |-> w.nextArr, slots |-> <<>>]),
                 !.nextArr = @ + 1]

\* shallowEquals of two dependency arrays (utils is not part of the sources)
shallowEquals(a, b) ==
  /\ a.t = "array" /\ b.t = "array"
  /\ Len(a.a) = Len(b.a)
  /\ \A i \in 1..Len(a.a) : ObjectIs(a.a[i], b.a[i])

(***************************************************************************)
(* hooks.ts: useState                                                      *)
(***************************************************************************)
\* line 85: the slot must be initialised
UseStateNeedsInit(cursor, hooks) ==
  cursor >= Len(hooks) \/ hooks[cursor + 1].t = "undefined"

\* useState (hooks.ts:78-117); returns the world and the state read.
\* The setter closure (path, cursor, state, hooks) is handed to the
\* application, which keeps the latest one per slot in w.setters.
useState(w, initialValue, max) ==
  IF w.thrown THEN [w |-> w, state |-> Undefined]
  ELSE
  LET path == currentPath(w)
      cursor == currentCursor(w)
      w1 == currentHooks(w)
      hooks == w1.state[path].slots
      init == UseStateNeedsInit(cursor, hooks)
      value == IF initialValue.t = "function" THEN initialValue.returns ELSE initialValue
      w2 == IF init
              THEN [w1 EXCEPT !.state[path].slots = ArrayWrite(@, cursor, value),
                              !.lazyCalls = @ + (IF initialValue.t = "function" THEN 1 ELSE 0)]
              ELSE w1
      state == w2.state[path].slots[cursor + 1]
      setState == [path |-> path, cursor |-> cursor, state |-> state,
                   hooks |-> w2.state[path].id, max |-> max]
      currentCursor_ == IF path \in DOMAIN w2.cursor THEN w2.cursor[path] ELSE 0
  IN [w |-> [w2 EXCEPT !.cursor = Put(@, path, currentCursor_ + 1),
                       !.setters = Put(@, <<path, cursor>>, setState),
                       !.stale = IF path \in w2.mounting /\ ~init
                                   THEN @ \cup {path} ELSE @],
      state |-> state]

(***************************************************************************)
(* hooks.ts: useEffect                                                     *)
(***************************************************************************)
IsEffectHook(slot) == slot.t = "effect"

\* lines 147-158: should the effect be queued
ShouldRun(hasPrev, prevDeps, deps) ==
  IF ~hasPrev THEN TRUE
  ELSE IF deps.t = "undefined" \/ prevDeps.t \in {"undefined", "null"} THEN TRUE
  ELSE ~shallowEquals(prevDeps, deps)

\* useEffect (hooks.ts:124-183)
useEffect(w, effect, deps) ==
  IF w.thrown THEN w
  ELSE
  LET path == currentPath(w)
      cursor == currentCursor(w)
      w1 == IF path \in DOMAIN w.state THEN w
            ELSE [w EXCEPT !.state = Put(@, path, [id |-> w.nextArr, slots |-> <<>>]),
                           !.nextArr = @ + 1]
      hooks == w1.state[path].slots
      hasPrev == cursor < Len(hooks) /\ IsEffectHook(hooks[cursor + 1])
      prevHook == hooks[cursor + 1]
      prevDeps == IF hasPrev THEN prevHook.deps ELSE Null
      shouldRun == ShouldRun(hasPrev, prevDeps, deps)
      effectHook == [t |-> "effect", kind |-> "EFFECT",
                     deps |-> IF deps.t = "undefined" THEN Null ELSE deps,
                     cleanup |-> IF hasPrev THEN prevHook.cleanup ELSE Null,
                     effect |-> effect]
      currentCursor_ == IF path \in DOMAIN w1.cursor THEN w1.cursor[path] ELSE 0
      slot == [path |-> path, cursor |-> cursor]
  IN [w1 EXCEPT !.queue = IF shouldRun THEN Append(@, slot) ELSE @,
                !.state[path].slots = ArrayWrite(@, cursor, effectHook),
                !.cursor = Put(@, path, currentCursor_ + 1),
                !.called = @ \cup {slot},
                !.passed = Put(@, slot, effect),
                !.first = IF path \in w.mounting THEN @ \cup {slot} ELSE @,
                !.changed = IF hasPrev /\ deps.t = "array" /\ prevDeps.t = "array"
                               /\ ~shallowEquals(prevDeps, deps)
                              THEN @ \cup {slot} ELSE @,
                !.same = IF hasPrev /\ deps.t = "array" /\ prevDeps.t = "array"
                               /\ shallowEquals(prevDeps, deps)
                              THEN @ \cup {slot} ELSE @]

(***************************************************************************)
(* The application: component functions.  A component is a function of its *)
(* props and of the hooks it calls; it is invoked with the world in which  *)
(* its Path is on top of the component stack.                              *)
(***************************************************************************)
\* String(value) of a state value
ValueToString(v) == IF v.t = "number" THEN NumToString(v.n) ELSE v.t

li(key, text) == createElement("li", key, NoAttrs, <<createTextElement(text)>>)
counter(key, mode) == createElement("Counter", key, [mode |-> mode], <<>>)
other(key) == createElement("Other", key, NoAttrs, <<>>)
pair(key) == createElement("Pair", key, NoAttrs, <<>>)
fragment(key, children) == createElement(Fragment, key, NoAttrs, children)
lazy(key) == createElement("Lazy", key, NoAttrs, <<>>)
eff(key, fail) == createElement("Eff", key, [fail |-> fail], <<>>)
boom(key, fail) == createElement("Boom", key, [fail |-> fail], <<>>)

\* the trees App can return, by program
Scenes(prog) ==
  CASE prog = "keyed" ->
         LET a == li(NumKey(1), "1")
             b == counter(NumKey(2), "count")
             c == pair(StrKey("a"))
             ul(children) == createElement("ul", NoKey, NoAttrs, children)
         IN << ul(<<a, b, c>>), ul(<<c, a, b>>), ul(<<b, a, c>>),
               ul(<<a, c, b>>), ul(<<b, c, a>>), ul(<<c, b, a>>) >>
    [] prog = "siblings" ->
         << createElement("div", NoKey, [className |-> "box"],
              <<counter(NoKey, "count"), counter(NoKey, "count")>>) >>
    [] prog = "swap" ->
         << other(NoKey),
            counter(NoKey, "empty"),
            NoNode,
            createElement("div", StrKey("x"), NoAttrs, <<>>),
            createElement("span", StrKey("x"), NoAttrs, <<>>) >>
    [] prog = "shapes" ->
         << createElement("div", NoKey, [id |-> "root", onClick |-> "h1"],
              <<fragment(NoKey, <<createTextElement("a"), createElement("i", NoKey, NoAttrs, <<>>)>>),
                createElement("p", NoKey, NoAttrs, <<>>)>>),
            createElement("div", NoKey, [id |-> "root", onClick |-> "h1"],
              <<pair(NoKey), counter(NoKey, "none")>>) >>
    [] prog = "faulty" ->
         << createElement("div", NoKey, NoAttrs,
              <<boom(NoKey, FALSE), counter(NoKey, "count")>>),
            createElement("div", NoKey, NoAttrs,
              <<boom(NoKey, TRUE), counter(NoKey, "count")>>),
            createElement("div", NoKey, NoAttrs, <<>>) >>
    [] prog = "fragile" ->
         << createElement("div", NoKey, NoAttrs,
              <<eff(NoKey, "effect"), eff(NoKey, "cleanup"), eff(NoKey, "none")>>),
            createElement("div", NoKey, NoAttrs, <<>>),
            createElement("div", NoKey, NoAttrs,
              <<eff(NoKey, "cleanup"), eff(NoKey, "none"), eff(NoKey, "effect")>>) >>
    [] prog = "relapse" ->
         << createElement("div", NoKey, NoAttrs,
              <<boom(NoKey, FALSE), eff(NoKey, "none")>>),
            createElement("div", NoKey, NoAttrs,
              <<boom(NoKey, TRUE), eff(NoKey, "none")>>) >>
    [] prog = "mixed" ->
         << createElement("div", NoKey, NoAttrs,
              <<counter(NumKey(1), "count"), counter(NoKey, "count")>>) >>
    [] prog = "lazy" ->
         << createElement("div", NoKey, NoAttrs, <<lazy(NoKey)>>) >>
    [] OTHER -> << NoNode >>

Programs == {"keyed", "siblings", "swap", "shapes", "faulty"}
\* the programs whose effects and cleanup functions throw, the one that
\* mixes keyed and unkeyed siblings and the one with a lazy initialiser
EffectPrograms == {"fragile", "mixed", "lazy"}
\* the programs of an application that calls setup again
RemountPrograms == {"swap", "relapse"}

\* function App({prog}) { const [scene] = useState(0); const [tick] = useState(0);
\*                        return scenes[scene]; }
\* (the application sets scene to an index of scenes and tick to 0 or 1)
App(w, props) ==
  LET scenes == Scenes(props.prog)
      r1 == useState(w, Num(0), Len(scenes) - 1)
      r2 == useState(r1.w, Num(0), 1)
  IN [w |-> r2.w,
      node |-> IF r1.state.t = "number" /\ r1.state.n < Len(scenes)
                 THEN scenes[r1.state.n + 1] ELSE NoNode]

\* function Counter({mode}) { const [count] = useState(0);
\*   useEffect(() => { ...; return () => {...} }, deps(mode, count)); return String(count); }
Counter(w, props) ==
  LET r == useState(w, Num(0), MaxVal)
      count == r.state
      deps == IF props.mode = "none" THEN Undefined
              ELSE IF props.mode = "empty" THEN ArrayOf(<<>>)
              ELSE ArrayOf(<<count>>)
      effect == [t |-> "function", pass |-> w.pass, seen |-> count,
                 throws |-> FALSE, cleanupThrows |-> FALSE]
  IN [w |-> useEffect(r.w, effect, deps),
      node |-> createTextElement(ValueToString(count))]

\* function Other() { const [v] = useState(1); return <b>{v}</b>; }
Other(w, props) ==
  LET r == useState(w, Num(1), MaxVal)
  IN [w |-> r.w,
      node |-> createElement("b", NoKey, NoAttrs, <<createTextElement(ValueToString(r.state))>>)]

\* function Pair() { return <>{"x"}{"y"}</>; }
Pair(w, props) ==
  [w |-> w, node |-> fragment(NoKey, <<createTextElement("x"), createTextElement("y")>>)]

\* function Eff({fail}) { useEffect(() => { if (fail === "effect") throw new Error();
\*   return () => { if (fail === "cleanup") throw new Error(); }; }); return "e"; }
Eff(w, props) ==
  LET effect == [t |-> "function", pass |-> w.pass, seen |-> Null,
                 throws |-> props.fail = "effect",
                 cleanupThrows |-> props.fail = "cleanup"]
  IN [w |-> useEffect(w, effect, Undefined), node |-> createTextElement("e")]

\* function Lazy() { const [v, setV] = useState(() => 1); return String(v); }
Lazy(w, props) ==
  LET r == useState(w, [t |-> "function", returns |-> Num(1)], 1)
  IN [w |-> r.w, node |-> createTextElement(ValueToString(r.state))]

\* function Boom({fail}) { if (fail) throw new Error(); return "ok"; }
Boom(w, props) ==
  IF props.fail
    THEN [w |-> [Throw(w) EXCEPT !.threw = @ \cup {currentPath(w)}], node |-> NoNode]
    ELSE [w |-> w, node |-> createTextElement("ok")]

\* component(props)
Invoke(w, type, props) ==
  IF w.thrown THEN [w |-> w, node |-> NoNode]
  ELSE IF type = "App" THEN App(w, props.attrs)
  ELSE IF type = "Counter" THEN Counter(w, props.attrs)
  ELSE IF type = "Other" THEN Other(w, props.attrs)
  ELSE IF type = "Boom" THEN Boom(w, props.attrs)
  ELSE IF type = "Eff" THEN Eff(w, props.attrs)
  ELSE IF type = "Lazy" THEN Lazy(w, props.attrs)
  ELSE Pair(w, props.attrs)

(***************************************************************************)
(* reconciler.ts                                                           *)
(***************************************************************************)
RECURSIVE reconcile(_, _, _, _, _)
RECURSIVE mountHost(_, _, _, _)
RECURSIVE mountComponent(_, _, _, _)
RECURSIVE mountFragment(_, _, _, _)
RECURSIVE MountChildren(_, _, _, _, _)
RECURSIVE updateHost(_, _, _, _)
RECURSIVE updateComponent(_, _, _, _)
RECURSIVE updateFragment(_, _, _, _)
RECURSIVE reconcileChildren(_, _, _, _, _, _)
RECURSIVE MatchChildren(_, _, _, _, _, _, _, _)

\* observation: the node at path is replaced because its type or key changed
Remount(w, path) == IF w.thrown THEN w ELSE [w EXCEPT !.remounted = @ \cup {path}]

NewInstance(w, kind, dom, node, children, path) ==
  [kind |-> kind, dom |-> dom, node |-> node, children |-> children,
   key |-> node.key, path |-> path, id |-> w.nextInst]
AllocInstance(w) == IF w.thrown THEN w ELSE [w EXCEPT !.nextInst = @ + 1]

\* childNodes.map((child, index) => reconcile(dom, null, child, childPath))
MountChildren(w, dom, childNodes, path, i) ==
  IF i > Len(childNodes) THEN [w |-> w, insts |-> <<>>]
  ELSE LET r == reconcile(w, dom, NoInstance, childNodes[i],
                          createChildPath(path, childNodes[i].key, i - 1))
           rest == MountChildren(r.w, dom, childNodes, path, i + 1)
       IN [w |-> rest.w, insts |-> <<r.inst>> \o rest.insts]

\* mountHost (reconciler.ts:17-46)
mountHost(w, parentDom, node, path) ==
  IF w.thrown THEN [w |-> w, inst |-> NoInstance]
  ELSE
  LET w1 == DomCreate(w, node.type, "")
      dom == Len(w1.dom)
      w2 == setDomProps(w1, dom, node.props.attrs)
      r == MountChildren(AllocInstance(w2), dom, node.props.children, path, 1)
      instance == NewInstance(w2, HOST, dom, node, r.insts, path)
  IN [w |-> insertInstance(r.w, parentDom, instance, 0), inst |-> instance]

\* mountText (reconciler.ts:51-67)
mountText(w, parentDom, node, path) ==
  IF w.thrown THEN [w |-> w, inst |-> NoInstance]
  ELSE
  LET w1 == DomCreate(w, "#text", node.props.nodeValue)
      instance == NewInstance(w1, TEXT, Len(w1.dom), node, <<>>, path)
  IN [w |-> insertInstance(AllocInstance(w1), parentDom, instance, 0), inst |-> instance]

\* lines 77-79 / 200-202: enter the component at path
EnterComponent(w, path, mounting) ==
  [w EXCEPT !.componentStack = Append(@, path),
            !.pushes = @ + 1,
            !.cursor = Put(@, path, 0),
            !.visited = @ \cup {path},
            !.mounting = IF mounting THEN {path} ELSE {},
            !.invoked = @ \cup {path},
            !.runs = IF mounting
                       THEN [s \in {x \in DOMAIN @ : x.path # path} |-> @[s]]
                       ELSE @]
\* componentStack.pop() after the call, without try/finally
LeaveComponentNoFinally(w) ==
  IF w.thrown THEN w
  ELSE [w EXCEPT !.componentStack = SubSeq(@, 1, Len(@) - 1), !.pops = @ + 1,
                 !.mounting = {}]

\* finally { componentStack.pop() }
LeaveComponent(w) ==
  [w EXCEPT !.componentStack = SubSeq(@, 1, Len(@) - 1), !.pops = @ + 1,
            !.mounting = {}]

\* lines 84-108: after the invocation c, the Instance and its child
MountComponentChild(c, parentDom, node, path) ==
  LET w1 == LeaveComponent(c.w)
      childVNode == c.node
      instance == NewInstance(w1, COMPONENT, 0, node, <<>>, path)
      w2 == AllocInstance(w1)
  IN IF childVNode.type # "null"
       THEN LET r == reconcile(w2, parentDom, NoInstance, childVNode,
                               createChildPath(path, childVNode.key, 0))
            IN [w |-> r.w,
                inst |-> [instance EXCEPT !.children = <<r.inst>>,
                                          !.dom = getFirstDom(r.inst)]]
       ELSE [w |-> w2, inst |-> instance]

\* mountComponent (reconciler.ts:72-109)
mountComponent(w, parentDom, node, path) ==
  IF w.thrown THEN [w |-> w, inst |-> NoInstance]
  ELSE MountComponentChild(Invoke(EnterComponent(w, path, TRUE), node.type, node.props),
                           parentDom, node, path)

\* mountFragment (reconciler.ts:114-138)
mountFragment(w, parentDom, node, path) ==
  IF w.thrown THEN [w |-> w, inst |-> NoInstance]
  ELSE
  LET r == MountChildren(AllocInstance(w), parentDom, node.props.children, path, 1)
      instance == NewInstance(w, FRAGMENT, 0, node, r.insts, path)
  IN [w |-> r.w, inst |-> [instance EXCEPT !.dom = getFirstDomFromChildren(r.insts)]]

\* updateHost (reconciler.ts:143-168)
updateHost(w, parentDom, instance, newNode) ==
  IF w.thrown THEN [w |-> w, inst |-> NoInstance]
  ELSE IF instance.dom = 0 THEN [w |-> Throw(w), inst |-> NoInstance]
  ELSE
  LET w1 == updateDomProps(w, instance.dom, instance.node.props.attrs, newNode.props.attrs)
      r == reconcileChildren(w1, parentDom, instance.dom, instance.children,
                             newNode.props.children, instance.path)
  IN [w |-> r.w, inst |-> [instance EXCEPT !.children = r.insts, !.node = newNode]]

\* updateText (reconciler.ts:173-190)
updateText(w, instance, newNode) ==
  IF w.thrown THEN [w |-> w, inst |-> NoInstance]
  ELSE IF instance.dom = 0 THEN [w |-> Throw(w), inst |-> NoInstance]
  ELSE
  LET newValue == newNode.props.nodeValue
      w1 == IF w.dom[instance.dom].text # newValue
              THEN [w EXCEPT !.dom[instance.dom].text = newValue,
                             !.hm.written = @ + 1]
              ELSE w
  IN [w |-> w1, inst |-> [instance EXCEPT !.node = newNode]]

\* lines 207-227: after the invocation c, the child is reconciled
UpdateComponentChild(c, parentDom, instance, newNode) ==
  LET path == instance.path
      w1 == LeaveComponent(c.w)
      childVNode == c.node
      oldChildInstance == IF Len(instance.children) > 0 THEN instance.children[1]
                          ELSE NoInstance
      childPath == IF childVNode.type # "null"
                     THEN createChildPath(path, childVNode.key, 0)
                   ELSE IF oldChildInstance.kind # "null" THEN oldChildInstance.path
                   ELSE createChildPath(path, NoKey, 0)
      r == reconcile(w1, parentDom, oldChildInstance, childVNode, childPath)
  IN [w |-> r.w,
      inst |-> [instance EXCEPT !.children = <<r.inst>>, !.node = newNode,
                                !.dom = getFirstDom(r.inst)]]

\* updateComponent (reconciler.ts:195-228)
updateComponent(w, parentDom, instance, newNode) ==
  IF w.thrown THEN [w |-> w, inst |-> NoInstance]
  ELSE UpdateComponentChild(
         Invoke(EnterComponent(w, instance.path, FALSE), newNode.type, newNode.props),
         parentDom, instance, newNode)

\* updateFragment (reconciler.ts:233-245)
updateFragment(w, parentDom, instance, newNode) ==
  IF w.thrown THEN [w |-> w, inst |-> NoInstance]
  ELSE
  LET r == reconcileChildren(w, parentDom, parentDom, instance.children,
                             newNode.props.children, instance.path)
  IN [w |-> r.w,
      inst |-> [instance EXCEPT !.children = r.insts, !.node = newNode,
                                !.dom = getFirstDomFromChildren(r.insts)]]

\* keyedOldChildrenIndices.get(key) (lines 259-267): the last old child
\* carrying the key, 0 when there is none
RECURSIVE KeyedOldIndex(_, _, _)
KeyedOldIndex(oldChildren, key, j) ==
  IF j = 0 THEN 0
  ELSE IF oldChildren[j].kind # "null" /\ oldChildren[j].key.t # "null"
          /\ oldChildren[j].key = key
    THEN j
  ELSE KeyedOldIndex(oldChildren, key, j - 1)

\* lines 305-315: the first unused old child of the same type and key
RECURSIVE MatchedOldIndex(_, _, _, _)
MatchedOldIndex(oldChildren, usedOldChildren, newChild, j) ==
  IF j > Len(oldChildren) THEN 0
  ELSE IF j \notin usedOldChildren /\ oldChildren[j].kind # "null"
          /\ oldChildren[j].node.type = newChild.type
          /\ oldChildren[j].key = newChild.key
    THEN j
  ELSE MatchedOldIndex(oldChildren, usedOldChildren, newChild, j + 1)

\* lines 276-331: resolve the new children back to front
MatchChildren(w, containerDom, oldChildren, newChildren, parentPath, i, usedOldChildren, newInstances) ==
  IF i = 0 THEN [w |-> w, used |-> usedOldChildren, insts |-> newInstances]
  ELSE
  LET newChild == newChildren[i]
      childPath == createChildPath(parentPath, newChild.key, i - 1)
      oldIndex == KeyedOldIndex(oldChildren, newChild.key, Len(oldChildren))
      matchedOldIndex == MatchedOldIndex(oldChildren, usedOldChildren, newChild, 1)
  IN
  IF newChild.type = "null"
    THEN MatchChildren(w, containerDom, oldChildren, newChildren, parentPath, i - 1,
                       usedOldChildren, [newInstances EXCEPT ![i] = NoInstance])
  ELSE IF newChild.key.t # "null" /\ oldIndex # 0
    THEN LET oldInstance == oldChildren[oldIndex]
             r == IF oldInstance.node.type = newChild.type
                    THEN reconcile(w, containerDom, oldInstance, newChild, childPath)
                    ELSE reconcile(Remount(removeInstance(w, containerDom, oldInstance), childPath),
                                   containerDom, NoInstance, newChild, childPath)
         IN MatchChildren(r.w, containerDom, oldChildren, newChildren, parentPath, i - 1,
                          usedOldChildren \cup {oldIndex},
                          [newInstances EXCEPT ![i] = r.inst])
  ELSE LET r == IF matchedOldIndex > 0
                  THEN reconcile(w, containerDom, oldChildren[matchedOldIndex],
                                 newChild, childPath)
                  ELSE reconcile(w, containerDom, NoInstance, newChild, childPath)
       IN MatchChildren(r.w, containerDom, oldChildren, newChildren, parentPath, i - 1,
                        IF matchedOldIndex > 0
                          THEN usedOldChildren \cup {matchedOldIndex}
                          ELSE usedOldChildren,
                        [newInstances EXCEPT ![i] = r.inst])

\* a reconciler that only checks the host parent, not the next sibling
NeedsMoveParentOnly(dom, containerDom, firstDom, nextAnchor) ==
  dom[firstDom].parent # containerDom

\* line 344: must the child be moved
NeedsMove(dom, containerDom, firstDom, nextAnchor) ==
  dom[firstDom].parent # containerDom
    \/ (nextAnchor # 0 /\ nextSibling(dom, firstDom) # nextAnchor)

\* lines 334-353: place the children back to front before their anchor
RECURSIVE PlaceChildren(_, _, _, _, _)
PlaceChildren(w, containerDom, newInstances, i, nextAnchor) ==
  IF i = 0 \/ w.thrown THEN w
  ELSE
  LET newInstance == newInstances[i]
      firstDom == getFirstDom(newInstance)
  IN
  IF newInstance.kind = "null" \/ firstDom = 0
    THEN PlaceChildren(w, containerDom, newInstances, i - 1, nextAnchor)
  ELSE
  LET needsMove == NeedsMove(w.dom, containerDom, firstDom, nextAnchor)
      w1 == IF needsMove
              THEN insertInstance(removeInstance(w, containerDom, newInstance),
                                  containerDom, newInstance, nextAnchor)
              ELSE w
  IN PlaceChildren(w1, containerDom, newInstances, i - 1, firstDom)

\* lines 357-363: detach the old children no new child reused
RECURSIVE RemoveUnused(_, _, _, _, _)
RemoveUnused(w, containerDom, oldChildren, usedOldChildren, i) ==
  IF i > Len(oldChildren) THEN w
  ELSE RemoveUnused(IF i \notin usedOldChildren /\ oldChildren[i].kind # "null"
                      THEN removeInstance(w, containerDom, oldChildren[i])
                      ELSE w,
                    containerDom, oldChildren, usedOldChildren, i + 1)

\* reconcileChildren (reconciler.ts:251-366)
reconcileChildren(w, parentDom, containerDom, oldChildren, newChildren, parentPath) ==
  IF w.thrown THEN [w |-> w, insts |-> <<>>]
  ELSE
  LET m == MatchChildren(w, containerDom, oldChildren, newChildren, parentPath,
                         Len(newChildren), {},
                         [i \in 1..Len(newChildren) |-> NoInstance])
      w1 == PlaceChildren(m.w, containerDom, m.insts, Len(newChildren), 0)
      w2 == RemoveUnused(w1, containerDom, oldChildren, m.used, 1)
  IN [w |-> w2, insts |-> m.insts]

\* reconcile (reconciler.ts:387-437)
reconcile(w, parentDom, instance, node, path) ==
  IF w.thrown THEN [w |-> w, inst |-> NoInstance]
  ELSE IF node.type = "null"
    THEN [w |-> IF instance.kind # "null" THEN removeInstance(w, parentDom, instance) ELSE w,
          inst |-> NoInstance]
  ELSE IF instance.kind = "null"
    THEN IF node.type = TEXT_ELEMENT THEN mountText(w, parentDom, node, path)
         ELSE IF node.type = Fragment THEN mountFragment(w, parentDom, node, path)
         ELSE IF node.type \in ComponentTypes THEN mountComponent(w, parentDom, node, path)
         ELSE mountHost(w, parentDom, node, path)
  ELSE IF instance.node.type # node.type \/ instance.key # node.key
    THEN reconcile(Remount(removeInstance(w, parentDom, instance), path),
                   parentDom, NoInstance, node, path)
  ELSE IF instance.kind = HOST THEN updateHost(w, parentDom, instance, node)
  ELSE IF instance.kind = TEXT THEN updateText(w, instance, node)
  ELSE IF instance.kind = COMPONENT THEN updateComponent(w, parentDom, instance, node)
  ELSE updateFragment(w, parentDom, instance, node)

(***************************************************************************)
(* Effect cleanups and effect execution                                    *)
(***************************************************************************)
\* effectHook.cleanup(): the call is recorded per cleanup function; the
\* function may throw
CallCleanup(w, cleanup) ==
  [w EXCEPT !.cleanupCalls =
       Put(@, cleanup.exec, IF cleanup.exec \in DOMAIN @ THEN @[cleanup.exec] + 1 ELSE 1),
            !.log = Append(@, [op |-> "cleanup", exec |-> cleanup.exec,
                                  throws |-> cleanup.throws]),
            !.thrown = cleanup.throws]

\* effectHook.cleanup() without try/catch
TryCleanupNoCatch(w, cleanup) == CallCleanup(w, cleanup)

\* try { effectHook.cleanup() } catch (error) { console.error(...) }
TryCleanup(w, cleanup) == [CallCleanup(w, cleanup) EXCEPT !.thrown = FALSE]

\* hooks.forEach(hook => { if (effect hook with cleanup) try { hook.cleanup() } ... })
RECURSIVE CleanupHooks(_, _, _)
CleanupHooks(w, hooks, i) ==
  IF w.thrown \/ i > Len(hooks) THEN w
  ELSE CleanupHooks(IF IsEffectHook(hooks[i]) /\ hooks[i].cleanup.t = "function"
                      THEN TryCleanup(w, hooks[i].cleanup) ELSE w,
                    hooks, i + 1)

\* the Paths of the Component Instances of a tree, in depth-first order
RECURSIVE ComponentPaths(_)
RECURSIVE ComponentPathsOf(_, _)
ComponentPaths(instance) ==
  IF instance.kind = "null" THEN <<>>
  ELSE (IF instance.kind = COMPONENT THEN <<instance.path>> ELSE <<>>)
         \o ComponentPathsOf(instance.children, 1)
ComponentPathsOf(children, i) ==
  IF i > Len(children) THEN <<>>
  ELSE ComponentPaths(children[i]) \o ComponentPathsOf(children, i + 1)

Range(s) == {s[i] : i \in DOMAIN s}

\* cleanupInstanceBeforeClear (part_000:138-172), over the component paths
RECURSIVE cleanupInstanceBeforeClear(_, _, _)
cleanupInstanceBeforeClear(w, paths, i) ==
  IF w.thrown \/ i > Len(paths) THEN w
  ELSE cleanupInstanceBeforeClear(
         IF paths[i] \in DOMAIN w.state
           THEN CleanupHooks(w, w.state[paths[i]].slots, 1) ELSE w,
         paths, i + 1)

\* path is one of paths or below one of them
InOrBelow(paths, path) ==
  path \in paths \/ \E p \in paths : IsProperPrefix(p, path)

\* cleanupUnusedHooks (hooks.ts:10-71)
RECURSIVE CleanupPaths(_, _)
CleanupPaths(w, paths) ==
  IF w.thrown \/ paths = {} THEN w
  ELSE LET p == CHOOSE x \in paths : TRUE IN
       CleanupPaths(CleanupHooks(w, w.state[p].slots, 1), paths \ {p})

cleanupUnusedHooks(w) ==
  LET pathsToCleanup == {p \in DOMAIN w.state : ~InOrBelow(w.visited, p)}
      w1 == CleanupPaths(w, pathsToCleanup)
  IN [w1 EXCEPT !.state = Drop(@, pathsToCleanup),
                !.cursor = Drop(@, pathsToCleanup),
                !.queue = SelectSeq(@, LAMBDA e : InOrBelow(w.visited, e.path))]

\* lines 229-241 without the assignments to effectHook.cleanup
RunEffectKeepCleanup(w, e, effectHook) ==
  [w EXCEPT !.nextExec = @ + (IF effectHook.effect.throws THEN 0 ELSE 1),
            !.cleanupOf = IF effectHook.effect.throws THEN @ ELSE Put(@, w.nextExec, e),
            !.ran = @ \cup {e},
            !.log = Append(@, [op |-> "effect", slot |-> e, effect |-> effectHook.effect]),
            !.early = IF w.justRendered \/ ~w.passDone THEN @ \cup {e} ELSE @,
            !.runs = Put(@, e, IF e \in DOMAIN @ THEN @[e] + 1 ELSE 1),
            !.lastRun = Put(@, e, effectHook.effect)]

\* lines 229-241: try { cleanup = effect() ... } catch { cleanup = null }
RunEffect(w, e, effectHook) ==
  [w EXCEPT !.state[e.path].slots[e.cursor + 1].cleanup =
                IF effectHook.effect.throws THEN Null
                ELSE [t |-> "function", exec |-> w.nextExec,
                      throws |-> effectHook.effect.cleanupThrows],
            !.nextExec = @ + (IF effectHook.effect.throws THEN 0 ELSE 1),
            !.cleanupOf = IF effectHook.effect.throws THEN @ ELSE Put(@, w.nextExec, e),
            !.ran = @ \cup {e},
            !.log = Append(@, [op |-> "effect", slot |-> e, effect |-> effectHook.effect]),
            !.early = IF w.justRendered \/ ~w.passDone THEN @ \cup {e} ELSE @,
            !.runs = Put(@, e, IF e \in DOMAIN @ THEN @[e] + 1 ELSE 1),
            !.lastRun = Put(@, e, effectHook.effect)]

\* lines 219-227, then the effect, unless the cleanup's exception got out
AfterCleanup(w1, e, effectHook) ==
  IF w1.thrown THEN w1 ELSE RunEffect(w1, e, effectHook)

\* one entry of executeEffects (hooks.ts:200-242)
ExecuteEffect(w, e) ==
  IF w.thrown THEN w
  ELSE IF e.path \notin DOMAIN w.state THEN w
  ELSE IF e.cursor >= Len(w.state[e.path].slots) THEN w
  ELSE IF ~IsEffectHook(w.state[e.path].slots[e.cursor + 1]) THEN w
  ELSE
  LET effectHook == w.state[e.path].slots[e.cursor + 1]
  IN AfterCleanup(IF effectHook.cleanup.t = "function"
                    THEN TryCleanup(w, effectHook.cleanup) ELSE w,
                  e, effectHook)

RECURSIVE ExecuteAll(_, _, _)
ExecuteAll(w, effectsToRun, i) ==
  IF i > Len(effectsToRun) THEN w
  ELSE ExecuteAll(ExecuteEffect(w, effectsToRun[i]), effectsToRun, i + 1)

\* executeEffects without emptying the queue
executeEffectsKeepQueue(w) == ExecuteAll([w EXCEPT !.log = <<>>], w.queue, 1)

\* executeEffects (hooks.ts:189-243)
executeEffects(w) == ExecuteAll([w EXCEPT !.queue = <<>>, !.log = <<>>], w.queue, 1)

(***************************************************************************)
(* Scheduling: enqueue / withEnqueue (utils is not part of the sources;    *)
(* modelled from the scheduler contract: a microtask queue, and one        *)
(* "scheduled" flag per wrapped function)                                  *)
(***************************************************************************)
\* enqueue(callback): queue a microtask
enqueue(w, task) == [w EXCEPT !.microtasks = Append(@, task)]

\* withEnqueue(fn)(): queue fn unless it is already queued; the flag is
\* cleared by the microtask once fn has run
withEnqueue(w, scheduled, task) ==
  IF w[scheduled] THEN w ELSE enqueue([w EXCEPT ![scheduled] = TRUE], task)

\* enqueueRender without the coalescing of withEnqueue
enqueueRenderAlways(w) == enqueue([w EXCEPT !.renderScheduled = TRUE], "render")

\* enqueueRender = withEnqueue(render) (part_000:296)
enqueueRender(w) == withEnqueue(w, "renderScheduled", "render")

\* scheduleEffects = withEnqueue(executeEffects) (hooks.ts:252)
scheduleEffects(w) == withEnqueue(w, "effectsScheduled", "executeEffects")

\* flushEffects (hooks.ts:254-266)
flushEffects(w) ==
  IF Len(w.queue) = 0 THEN w ELSE enqueue(w, "scheduleEffects")

(***************************************************************************)
(* render (part_000:178-291)                                               *)
(***************************************************************************)
\* lines 195-207 and 264-276: drop the queued effects of the cleaned paths
DropCleaned(queue, cleanupedPaths) ==
  SelectSeq(queue, LAMBDA e : ~InOrBelow(cleanupedPaths, e.path))

\* lines 179-245: teardown of the previous tree before reconciling
BeforeReconcile(w) ==
  LET oldInstance == w.root.instance
      paths == ComponentPaths(oldInstance)
      pathsToCleanup == Range(paths)
      w1 == cleanupInstanceBeforeClear(w, paths, 1)
      visited == w1.visited \cup pathsToCleanup
                   \cup {sp \in DOMAIN w1.state :
                           \E p \in pathsToCleanup : IsProperPrefix(p, sp)}
      pathsToDelete == {p \in DOMAIN w1.state : p \notin visited}
  IN [w1 EXCEPT !.visited = visited,
                !.queue = IF oldInstance.kind # "null"
                            THEN DropCleaned(@, pathsToCleanup) ELSE @,
                !.state = Drop(@, pathsToDelete),
                !.cursor = Drop(@, pathsToDelete),
                !.componentStack = <<>>]

\* the cleanup functions stored in the effect hooks of paths
StoredAt(state, paths) ==
  UNION {{state[p].slots[i].cleanup.exec :
            i \in {j \in DOMAIN state[p].slots :
                     /\ IsEffectHook(state[p].slots[j])
                     /\ state[p].slots[j].cleanup.t = "function"}} :
         p \in paths \cap DOMAIN state}

\* lines 260-290: store the new root, drop the effects of the cleaned
\* paths again, clean the unused hooks up, schedule the flush
AfterReconcile(r, cleanupedPaths) ==
  IF r.w.thrown THEN r.w
  ELSE flushEffects(
         [cleanupUnusedHooks([r.w EXCEPT !.root.instance = r.inst,
                                         !.passDone = TRUE,
                                         !.orphaned = @ \cup StoredAt(r.w.state,
                                            cleanupedPaths \ Range(ComponentPaths(r.inst))),
                                         !.queue = DropCleaned(@, cleanupedPaths)])
            EXCEPT !.visited = {}])

\* lines 249-257: no container, no pass; else reconcile the root
ReconcileRoot(w1, oldInstance) ==
  IF w1.root.container = 0 THEN w1
  ELSE AfterReconcile(reconcile(w1, w1.root.container, oldInstance, w1.root.node, <<"0">>),
                      Range(ComponentPaths(oldInstance)))

\* render (part_000:178-291)
render(w) == ReconcileRoot(BeforeReconcile(w), w.root.instance)

(***************************************************************************)
(* State                                                                   *)
(***************************************************************************)
VARIABLES
  host,       \* the DOM heap
  context,    \* context.root, context.hooks, context.effects
  scheduler,  \* the microtask queue and the withEnqueue flags
  app,        \* what the application holds: the setters, the calls made
  obs,        \* observations of the last render pass and of the effects
  prev,       \* the Instance tree, Hook Store and DOM when the last pass started
  lastCall    \* observation of the last setter call

vars == <<host, context, scheduler, app, obs, prev, lastCall>>

NoObs ==
  [hm |-> NoHm, stale |-> {}, mounting |-> {}, invoked |-> {}, called |-> {},
   first |-> {}, changed |-> {}, same |-> {}, remounted |-> {}, ran |-> {},
   pass |-> 0, runs |-> <<>>, lastRun |-> <<>>, cleanupCalls |-> <<>>,
   nextExec |-> 1, lazyCalls |-> 0, errors |-> 0, kind |-> "none",
   justRendered |-> FALSE, threw |-> {}, passDone |-> TRUE, pushes |-> 0,
   pops |-> 0, cleanupOf |-> <<>>, early |-> {}, orphaned |-> {},
   coalesced |-> FALSE, log |-> <<>>, passed |-> <<>>]

\* the world the operators above work on
World ==
  [dom |-> host, thrown |-> FALSE,
   root |-> context.root,
   state |-> context.hooks.state, cursor |-> context.hooks.cursor,
   visited |-> context.hooks.visited, componentStack |-> context.hooks.componentStack,
   queue |-> context.effects.queue,
   nextArr |-> context.nextArr, nextInst |-> context.nextInst,
   microtasks |-> scheduler.microtasks,
   renderScheduled |-> scheduler.renderScheduled,
   effectsScheduled |-> scheduler.effectsScheduled,
   setters |-> app.setters, sets |-> app.sets, setups |-> app.setups,
   hm |-> obs.hm, stale |-> obs.stale, mounting |-> obs.mounting,
   invoked |-> obs.invoked, called |-> obs.called, first |-> obs.first,
   changed |-> obs.changed, same |-> obs.same, remounted |-> obs.remounted,
   ran |-> obs.ran, pass |-> obs.pass, runs |-> obs.runs, lastRun |-> obs.lastRun,
   cleanupCalls |-> obs.cleanupCalls, nextExec |-> obs.nextExec,
   lazyCalls |-> obs.lazyCalls, errors |-> obs.errors, kind |-> obs.kind,
   justRendered |-> FALSE, threw |-> obs.threw, passDone |-> obs.passDone,
   pushes |-> obs.pushes, pops |-> obs.pops, cleanupOf |-> obs.cleanupOf,
   early |-> obs.early, orphaned |-> obs.orphaned, coalesced |-> obs.coalesced,
   log |-> obs.log, passed |-> obs.passed]

Commit(w) ==
  /\ host' = w.dom
  /\ context' = [root |-> w.root,
                 hooks |-> [state |-> w.state, cursor |-> w.cursor,
                            visited |-> w.visited, componentStack |-> w.componentStack],
                 effects |-> [queue |-> w.queue],
                 nextArr |-> w.nextArr, nextInst |-> w.nextInst]
  /\ scheduler' = [microtasks |-> w.microtasks,
                   renderScheduled |-> w.renderScheduled,
                   effectsScheduled |-> w.effectsScheduled]
  /\ app' = [setters |-> w.setters, sets |-> w.sets, setups |-> w.setups]
  /\ obs' = [hm |-> w.hm, stale |-> w.stale, mounting |-> w.mounting,
             invoked |-> w.invoked, called |-> w.called, first |-> w.first,
             changed |-> w.changed, same |-> w.same, remounted |-> w.remounted,
             ran |-> w.ran, pass |-> w.pass, runs |-> w.runs, lastRun |-> w.lastRun,
             cleanupCalls |-> w.cleanupCalls, nextExec |-> w.nextExec,
             lazyCalls |-> w.lazyCalls,
             errors |-> w.errors + (IF w.thrown THEN 1 ELSE 0), kind |-> w.kind,
             justRendered |-> w.justRendered, threw |-> w.threw,
             passDone |-> w.passDone, pushes |-> w.pushes, pops |-> w.pops,
             cleanupOf |-> w.cleanupOf, early |-> w.early,
             orphaned |-> w.orphaned, coalesced |-> w.coalesced,
             log |-> w.log, passed |-> w.passed]

\* the state after the modules are loaded: nothing mounted, one container
Init ==
  /\ host = <<NewDomNode("container", "")>>
  /\ context = [root |-> [container |-> 0, node |-> NoNode, instance |-> NoInstance],
                hooks |-> [state |-> <<>>, cursor |-> <<>>, visited |-> {},
                           componentStack |-> <<>>],
                effects |-> [queue |-> <<>>],
                nextArr |-> 1, nextInst |-> 1]
  /\ scheduler = [microtasks |-> <<>>, renderScheduled |-> FALSE,
                  effectsScheduled |-> FALSE]
  /\ app = [setters |-> <<>>, sets |-> 0, setups |-> 0]
  /\ obs = NoObs
  /\ prev = [instance |-> NoInstance, state |-> <<>>, dom |-> <<>>]
  /\ lastCall = [kind |-> "none"]

\* a render pass starts: the observations of the previous pass are dropped
StartPass(w, kind) ==
  [w EXCEPT !.hm = NoHm, !.stale = {}, !.mounting = {}, !.invoked = {},
            !.called = {}, !.first = {}, !.changed = {}, !.same = {},
            !.remounted = {}, !.ran = {}, !.pass = @ + 1, !.kind = kind,
            !.justRendered = TRUE, !.threw = {}, !.passDone = FALSE,
            !.pushes = 0, !.pops = 0, !.early = {}, !.log = <<>>]

Snapshot(w) == [instance |-> w.root.instance, state |-> w.state, dom |-> w.dom]

(***************************************************************************)
(* setup (setup.ts:13-40)                                                  *)
(***************************************************************************)
\* container.innerHTML = ""
ClearContainer(dom, container) ==
  [n \in DOMAIN dom |->
     IF n = container THEN [dom[n] EXCEPT !.kids = <<>>]
     ELSE IF dom[n].parent = container THEN [dom[n] EXCEPT !.parent = 0]
     ELSE dom[n]]

\* lines 15-22 without the check of the root node
SetupRejectsNoContainer(rootNode, container) == container = 0

\* lines 15-22: no container, or a null root node
SetupRejects(rootNode, container) == container = 0 \/ rootNode.type = "null"

\* context.hooks.clear() (context is not part of the sources; modelled from
\* the contract of mount: all hook state is reset)
hooksClear(w) ==
  [w EXCEPT !.state = <<>>, !.cursor = <<>>, !.visited = {}, !.componentStack = <<>>]

\* context.root.reset({ container, node }) (modelled from the contract of
\* mount: the new container and root node, no current Instance)
rootReset(w, container, node) ==
  [w EXCEPT !.root = [container |-> container, node |-> node, instance |-> NoInstance]]

setup(w, rootNode, container) ==
  IF SetupRejects(rootNode, container) THEN Throw(w)
  ELSE
  LET w1 == IF w.root.instance.kind # "null"
              THEN removeInstance(w, container, w.root.instance) ELSE w
      w2 == [rootReset(hooksClear([w1 EXCEPT !.dom = ClearContainer(@, container)]),
                       container, rootNode)
               EXCEPT !.queue = <<>>]
  IN render(w2)

Setup(prog) ==
  /\ context.root.container = 0
  /\ prev' = Snapshot(World)
  /\ lastCall' = lastCall
  /\ Commit(setup(StartPass(World, "mount"),
                  createElement("App", NoKey, [prog |-> prog], <<>>), CONTAINER))

(***************************************************************************)
(* The setter returned by useState (hooks.ts:95-110)                       *)
(***************************************************************************)
\* the updater functions the application passes
ApplyUpdater(arg, prevValue) ==
  IF arg.fn = "inc" THEN Num(prevValue.n + 1) ELSE prevValue

\* line 97: the next value
NextValue(setter, arg) ==
  IF arg.t = "function" THEN ApplyUpdater(arg, setter.state) ELSE arg

\* line 100: the call changes nothing
SetStateSkips(setter, newValue) == ObjectIs(setter.state, newValue)

setState(w, setter, arg) ==
  LET newValue == NextValue(setter, arg)
      attached == setter.path \in DOMAIN w.state
                    /\ w.state[setter.path].id = setter.hooks
      w1 == IF attached
              THEN [w EXCEPT !.state[setter.path].slots = ArrayWrite(@, setter.cursor, newValue)]
              ELSE w
  IN IF SetStateSkips(setter, newValue) THEN w ELSE enqueueRender(w1)

SetterArgs(setter) ==
  {Num(v) : v \in 0..setter.max}
    \cup (IF setter.state.t = "number" /\ setter.state.n < setter.max
            THEN {[t |-> "function", fn |-> "inc"]} ELSE {})

SlotValue(w, setter) ==
  IF setter.path \in DOMAIN w.state /\ w.state[setter.path].id = setter.hooks
       /\ setter.cursor < Len(w.state[setter.path].slots)
    THEN w.state[setter.path].slots[setter.cursor + 1] ELSE Undefined

SetState(k, arg) ==
  /\ app.sets < MaxSets
  /\ LET setter == app.setters[k]
         w == setState([World EXCEPT !.sets = @ + 1], setter, arg)
     IN /\ Commit(w)
        /\ lastCall' = [kind |-> "set", arg |-> arg,
                        before |-> SlotValue(World, setter),
                        after |-> SlotValue(w, setter),
                        wasScheduled |-> scheduler.renderScheduled,
                        deleted |-> setter.path \notin DOMAIN context.hooks.state,
                        scheduled |-> w.renderScheduled]
  /\ prev' = prev

(***************************************************************************)
(* Microtasks                                                              *)
(***************************************************************************)
Pop(w) == [w EXCEPT !.microtasks = Tail(@)]

\* the microtask of enqueueRender: render(), then scheduled = false
RunRender ==
  /\ scheduler.microtasks # <<>>
  /\ Head(scheduler.microtasks) = "render"
  /\ prev' = Snapshot(World)
  /\ lastCall' = lastCall
  /\ Commit([render(StartPass(Pop(World), "update")) EXCEPT !.renderScheduled = FALSE])

\* the microtask of flushEffects: scheduleEffects()
RunScheduleEffects ==
  /\ scheduler.microtasks # <<>>
  /\ Head(scheduler.microtasks) = "scheduleEffects"
  /\ Commit([scheduleEffects(Pop(World))
               EXCEPT !.coalesced = @ \/ scheduler.effectsScheduled])
  /\ UNCHANGED <<prev, lastCall>>

\* the microtask of scheduleEffects: executeEffects(), then scheduled = false
RunExecuteEffects ==
  /\ scheduler.microtasks # <<>>
  /\ Head(scheduler.microtasks) = "executeEffects"
  /\ Commit([executeEffects(Pop(World)) EXCEPT !.effectsScheduled = FALSE])
  /\ UNCHANGED <<prev, lastCall>>

\* setup called by the application at any time, with any arguments
RootNodes == {NoNode} \cup {createElement("App", NoKey, [prog |-> prog], <<>>) : prog \in RemountPrograms}

CallSetup(rootNode, container) ==
  /\ app.setups < MaxSetups
  /\ prev' = Snapshot(World)
  /\ lastCall' = [kind |-> "setup", rootNode |-> rootNode, container |-> container]
  /\ Commit(setup(IF SetupRejects(rootNode, container)
                    THEN [World EXCEPT !.setups = @ + 1]
                    ELSE StartPass([World EXCEPT !.setups = @ + 1], "mount"),
                  rootNode, container))

\* a setter call of an application that calls setup again
SetStateFew(k, arg) ==
  /\ app.sets < MaxRemountSets
  /\ SetState(k, arg)

Next ==
  \/ \E prog \in Programs : Setup(prog)
  \/ \E k \in DOMAIN app.setters : \E arg \in SetterArgs(app.setters[k]) : SetState(k, arg)
  \/ RunRender
  \/ RunScheduleEffects
  \/ RunExecuteEffects

Spec == Init /\ [][Next]_vars

NextRemount ==
  \/ \E rootNode \in RootNodes : \E container \in {0, CONTAINER} : CallSetup(rootNode, container)
  \/ \E k \in DOMAIN app.setters : \E arg \in SetterArgs(app.setters[k]) : SetStateFew(k, arg)
  \/ RunRender
  \/ RunScheduleEffects
  \/ RunExecuteEffects

SpecRemount == Init /\ [][NextRemount]_vars

NextEffects ==
  \/ \E prog \in EffectPrograms : Setup(prog)
  \/ \E k \in DOMAIN app.setters :
       \E arg \in SetterArgs(app.setters[k]) \cup {Undefined} : SetState(k, arg)
  \/ RunRender
  \/ RunScheduleEffects
  \/ RunExecuteEffects

SpecEffects == Init /\ [][NextEffects]_vars

\* what the scheduler can be after the microtask at the head of the queue
\* has run: the head is gone, and the task has enqueued at most one microtask
DequeueResults ==
  {[microtasks |-> Tail(scheduler.microtasks) \o x,
    renderScheduled |-> r, effectsScheduled |-> e] :
     x \in {<<>>, <<"scheduleEffects">>, <<"executeEffects">>}, r, e \in BOOLEAN}

\* the event loop takes the microtask at the head of the queue and runs it;
\* the step is enabled exactly when the queue is not empty
DequeueMicrotask ==
  /\ scheduler.microtasks # <<>>
  /\ scheduler' \in DequeueResults

\* the scheduled microtasks are all executed, in queue order
SpecFair == Init /\ [][NextEffects]_vars /\ WF_scheduler(DequeueMicrotask)

(***************************************************************************)
(* Vocabulary of the properties                                            *)
(***************************************************************************)
\* no render pass and no effect flush is pending
Settled == scheduler.microtasks = <<>>
\* the last step was a render pass that replaced an existing tree
AfterUpdate == obs.justRendered /\ obs.kind = "update"

RECURSIVE Instances(_)
Instances(instance) ==
  IF instance.kind = "null" THEN {}
  ELSE {instance} \cup UNION {Instances(instance.children[i]) : i \in DOMAIN instance.children}

\* the pairs (old, new) of Instances at the same tree position with the
\* same type and key in the previous and in the current tree
RECURSIVE SamePosition(_, _)
SamePosition(o, n) ==
  IF o.kind = "null" \/ n.kind = "null" THEN {}
  ELSE IF o.node.type # n.node.type \/ o.key # n.key THEN {}
  ELSE {<<o, n>>} \cup UNION {SamePosition(o.children[i], n.children[i]) :
                                i \in (DOMAIN o.children) \cap (DOMAIN n.children)}

\* the virtual tree a pass rendered, component outputs included
RECURSIVE VTree(_)
VTree(instance) ==
  IF instance.kind = "null" THEN [kind |-> "null"]
  ELSE [kind |-> instance.kind, node |-> instance.node,
        kids |-> [i \in DOMAIN instance.children |-> VTree(instance.children[i])]]

MountedPaths == Range(ComponentPaths(context.root.instance))

\* the state slots (not the effect records) of a Hook Store entry
StateSlots(store, path) ==
  IF path \in DOMAIN store
    THEN [i \in DOMAIN store[path].slots |->
            IF IsEffectHook(store[path].slots[i]) THEN Null ELSE store[path].slots[i]]
    ELSE <<>>

Keys(children) == [i \in DOMAIN children |-> children[i].key]
AllKeyed(children) ==
  /\ children # <<>>
  /\ \A i \in DOMAIN children : children[i].kind # "null" /\ children[i].key.t # "null"
  /\ \A i, j \in DOMAIN children : i # j => children[i].key # children[j].key

\* (old, new) states of one parent whose keyed children were permuted
KeyedReorders ==
  {pr \in {<<o, n>> : o \in Instances(prev.instance), n \in Instances(context.root.instance)} :
     /\ pr[1].id = pr[2].id
     /\ pr[1].kind \in {HOST, FRAGMENT}
     /\ Len(pr[1].children) = Len(pr[2].children)
     /\ AllKeyed(pr[1].children) /\ AllKeyed(pr[2].children)
     /\ {<<c.key, c.node.type>> : c \in Range(pr[1].children)}
          = {<<c.key, c.node.type>> : c \in Range(pr[2].children)}}

(***************************************************************************)
(* C1  Keyed reorder.  After an update pass, for every host parent whose   *)
(* children all carry distinct keys and had the same keys and types        *)
(* before the pass: each key has the same Instance and the same host       *)
(* nodes as before (none created, none detached), the state slots stored   *)
(* under a keyed component's Path are the ones stored when the pass        *)
(* started, and the parent's host children are the children's host nodes   *)
(* in the new child order.                                                 *)
(***************************************************************************)
C1_KeyedReorder ==
  AfterUpdate =>
    \A pr \in KeyedReorders :
      LET o == pr[1]
          n == pr[2]
      IN pr[2].kind = HOST =>
         /\ \A i \in DOMAIN n.children : \A j \in DOMAIN o.children :
              n.children[i].key = o.children[j].key =>
                /\ n.children[i].id = o.children[j].id
                /\ Range(getDomNodes(n.children[i])) = Range(getDomNodes(o.children[j]))
                /\ \A d \in Range(getDomNodes(n.children[i])) :
                     d <= Len(prev.dom) /\ host[d].parent = n.dom
                /\ n.children[i].kind = COMPONENT =>
                     /\ n.children[i].path = o.children[j].path
                     /\ StateSlots(context.hooks.state, n.children[i].path)
                          = StateSlots(prev.state, o.children[j].path)
         /\ host[n.dom].kids = DomNodesOfChildren(n.children, 1)

\* a pass permuted keyed children, one of them a component whose state was written
C1_Witness ==
  /\ AfterUpdate
  /\ \E pr \in KeyedReorders :
       /\ pr[2].kind = HOST
       /\ Keys(pr[1].children) # Keys(pr[2].children)
       /\ \E c \in Range(pr[2].children) :
            /\ c.kind = COMPONENT
            /\ c.path \in DOMAIN context.hooks.state
            /\ StateSlots(context.hooks.state, c.path)[1] # Num(0)

(***************************************************************************)
(* C2  State continuity at a position.  After an update pass, every        *)
(* component that has the same type, key and sibling index as before the   *)
(* pass reads the Hook Store entry it wrote at that position: its Path and *)
(* its state slots are those of the component at that position before.     *)
(***************************************************************************)
C2_StateStaysAtPosition ==
  AfterUpdate =>
    \A pr \in SamePosition(prev.instance, context.root.instance) :
      pr[2].kind = COMPONENT =>
        /\ pr[2].path = pr[1].path
        /\ StateSlots(context.hooks.state, pr[2].path) = StateSlots(prev.state, pr[1].path)

(***************************************************************************)
(* C3  Type/key change forces remount.  When a pass replaces the node at a *)
(* Path because its type or key changed, a component mounted at that Path  *)
(* finds every state slot uninitialised, and the host nodes of the new     *)
(* Instance are fresh ones.                                                *)
(***************************************************************************)
C3_RemountStartsEmpty ==
  obs.justRendered =>
    /\ obs.remounted \cap obs.stale = {}
    /\ \A n \in Instances(context.root.instance) :
         n.path \in obs.remounted =>
           \A d \in Range(getDomNodes(n)) : d > Len(prev.dom)

(***************************************************************************)
(* C4  Idempotence.  An update pass that renders a virtual tree equal to   *)
(* the previous one creates, inserts, removes and writes nothing in the    *)
(* host tree.                                                              *)
(***************************************************************************)
C4_UnchangedTreeNoMutation ==
  (AfterUpdate /\ VTree(prev.instance) = VTree(context.root.instance)) =>
    obs.hm = NoHm

(***************************************************************************)
(* C5  State identity short-circuit.  A setter called with a value equal   *)
(* (Object.is) to the value stored in its slot at the time of the call     *)
(* leaves the slot alone and schedules nothing; called with a different    *)
(* value it stores the value and a render is scheduled.                    *)
(***************************************************************************)
C5_SetterComparesStoredValue ==
  (lastCall.kind = "set" /\ lastCall.arg.t # "function") =>
    IF ObjectIs(lastCall.before, lastCall.arg)
      THEN lastCall.after = lastCall.before
             /\ lastCall.scheduled = lastCall.wasScheduled
      ELSE lastCall.after = lastCall.arg /\ lastCall.scheduled

(***************************************************************************)
(* C6  Functional state update.  A setter called with a function stores    *)
(* the function applied to the value the slot holds when the setter is     *)
(* called, so successive functional updates compose.                       *)
(***************************************************************************)
C6_UpdaterSeesStoredValue ==
  (lastCall.kind = "set" /\ lastCall.arg.t = "function") =>
    lastCall.after = ApplyUpdater(lastCall.arg, lastCall.before)

\* the deps recorded for a slot
StoredDeps(s) == context.hooks.state[s.path].slots[s.cursor + 1].deps
\* the effect slots the mounted components registered in the last pass
EffectSlots ==
  {s \in obs.called :
     /\ s.path \in MountedPaths \cap DOMAIN context.hooks.state
     /\ s.cursor < Len(context.hooks.state[s.path].slots)
     /\ IsEffectHook(context.hooks.state[s.path].slots[s.cursor + 1])}

(***************************************************************************)
(* C7  Effect dependency gating.  Once the flush that follows an update    *)
(* pass is over, an effect of a mounted component registered with a deps   *)
(* array has been executed after the pass if and only if its deps differed *)
(* from the deps recorded by the previous render of the slot.              *)
(***************************************************************************)
C7_DepsGateEffect ==
  (Settled /\ obs.kind = "update") =>
    /\ \A s \in obs.changed : s.path \in MountedPaths => s \in obs.ran
    /\ \A s \in obs.same : s \notin obs.ran

(***************************************************************************)
(* C8  An effect registered without deps has been executed after every     *)
(* pass that invoked its component, once the flush of the pass is over.    *)
(***************************************************************************)
C8_NoDepsRunsEveryPass ==
  Settled =>
    \A s \in obs.called \cap EffectSlots :
      StoredDeps(s).t = "null" => s \in obs.ran

(***************************************************************************)
(* C9  An effect registered with deps = [] is executed exactly once in the *)
(* lifetime of its component: never twice, and once no render or flush is  *)
(* pending it has been executed.                                           *)
(***************************************************************************)
RunsOf(s) == IF s \in DOMAIN obs.runs THEN obs.runs[s] ELSE 0
C9_EmptyDepsRunsOnce ==
  \A s \in EffectSlots :
    StoredDeps(s) = ArrayOf(<<>>) =>
      /\ RunsOf(s) <= 1
      /\ Settled => RunsOf(s) = 1

(***************************************************************************)
(* C10  The first invocation of an effect hook at a slot (the invocation   *)
(* that mounts the component, in a mount pass or in an update pass) is     *)
(* executed at the flush that follows the pass.                            *)
(***************************************************************************)
C10_FirstInvocationRuns ==
  Settled =>
    \A s \in obs.first : s.path \in MountedPaths => s \in obs.ran

\* the last step was a render pass that ran to its end
PassCompleted == obs.justRendered /\ obs.passDone
\* how often the cleanup function f was invoked so far
CallsOf(f) == IF f \in DOMAIN obs.cleanupCalls THEN obs.cleanupCalls[f] ELSE 0
\* the cleanup functions returned by the last execution of their effect
StoredCleanups ==
  {f \in DOMAIN obs.cleanupOf :
     \A g \in DOMAIN obs.cleanupOf : obs.cleanupOf[g] = obs.cleanupOf[f] => g <= f}

(***************************************************************************)
(* C11  Orphan cleanup runs exactly once.  The render pass that takes the  *)
(* component of a stored cleanup function out of the tree invokes that     *)
(* cleanup function exactly once, and no later step (render pass or effect *)
(* flush) invokes it again (stated for the runs in which nothing threw).   *)
(***************************************************************************)
C11_OrphanCleanupOnce ==
  [][obs.errors' = 0 =>
       \A f \in obs.orphaned' :
         CallsOf(f)' = IF f \in obs.orphaned THEN CallsOf(f) ELSE CallsOf(f) + 1]_vars

(***************************************************************************)
(* C12  Orphan state is deleted.  After a completed render pass every Path *)
(* of the Hook Store is the Path of a Component Instance of the current    *)
(* tree.                                                                   *)
(***************************************************************************)
C12_OrphanStateDeleted ==
  PassCompleted => DOMAIN context.hooks.state \subseteq MountedPaths

\* the render passes waiting in the microtask queue
RendersPending ==
  Cardinality({i \in DOMAIN scheduler.microtasks : scheduler.microtasks[i] = "render"})
\* what the Hook Store holds at a slot; undefined when the slot does not exist
StoredValue(store, k) ==
  IF k[1] \in DOMAIN store /\ k[2] < Len(store[k[1]].slots)
    THEN store[k[1]].slots[k[2] + 1] ELSE Undefined

(***************************************************************************)
(* C13  Render coalescing.  However many setter calls change a slot before *)
(* the pending render pass runs, one render pass is pending, and none is   *)
(* left once it has run; a setter call that changes its slot leaves a      *)
(* render pass pending, whether it comes before or after a pass; and every *)
(* useState of a completed update pass returns what the Hook Store held at *)
(* its slot when the pass started.                                         *)
(***************************************************************************)
C13_RenderCoalescing ==
  [][/\ RendersPending' <= 1
     /\ scheduler.renderScheduled' <=> RendersPending' = 1
     /\ (app.sets' # app.sets /\ lastCall'.before # lastCall'.after) => RendersPending' = 1
     /\ obs.pass' # obs.pass => RendersPending' = 0
     /\ (obs.pass' # obs.pass /\ obs.kind' = "update" /\ obs.passDone') =>
          \A k \in DOMAIN app.setters' :
            (k[1] \in obs.invoked' /\ StoredValue(context.hooks.state, k).t # "undefined") =>
              app.setters'[k].state = StoredValue(context.hooks.state, k)]_vars
\* a second setter call changed a slot while a render pass was pending,
\* and one pass is pending
C13_Witness ==
  /\ lastCall.kind = "set"
  /\ lastCall.wasScheduled
  /\ lastCall.before # lastCall.after
  /\ RendersPending = 1

(***************************************************************************)
(* C14  Effects never run inside a render pass.  No effect is executed in  *)
(* the step of a render pass, and none is executed while the last render   *)
(* pass has not stored its root Instance: an effect runs only after the    *)
(* pass that queued it is complete.                                        *)
(***************************************************************************)
C14_EffectsAfterPass == obs.early = {}

(***************************************************************************)
(* C15  A component that throws does not abort the pass.  A render pass in *)
(* which a component function threw still stores its root Instance, has    *)
(* reconciled the other components of the tree, and propagates nothing.    *)
(***************************************************************************)
C15_ThrowDoesNotAbort ==
  (obs.justRendered /\ obs.threw # {}) =>
    /\ obs.passDone
    /\ obs.errors = 0
    /\ MountedPaths \subseteq obs.invoked

(***************************************************************************)
(* C16  Root mount.  A call of setup with a container and a root node      *)
(* performs one complete render pass in the same step: afterwards the      *)
(* container holds the host nodes of the new root Instance and no host     *)
(* node from before, every Hook Store entry is a fresh one of a component  *)
(* of the new tree, the visited set and the invocation stack are empty,    *)
(* the Effect Queue holds only effects registered by this pass, no effect  *)
(* has been executed and no further pass has been requested.  A call with  *)
(* a null container or a null root node throws and leaves the host tree,   *)
(* the core state and the scheduler as they were.                          *)
(***************************************************************************)
C16_RootMount ==
  [][app.setups' # app.setups =>
       IF lastCall'.container = 0 \/ lastCall'.rootNode.type = "null"
         THEN /\ obs.errors' = obs.errors + 1
              /\ UNCHANGED <<host, context, scheduler>>
              /\ obs.pass' = obs.pass
         ELSE /\ obs.errors' = obs.errors
              /\ obs.pass' = obs.pass + 1
              /\ obs.passDone'
              /\ context'.root.container = lastCall'.container
              /\ context'.root.node = lastCall'.rootNode
              /\ context'.root.instance.kind = COMPONENT
              /\ context'.root.instance.node = lastCall'.rootNode
              /\ host'[lastCall'.container].kids = getDomNodes(context'.root.instance)
              /\ \A n \in DOMAIN host' :
                   host'[n].parent = lastCall'.container =>
                     /\ n \notin DOMAIN host
                     /\ \E i \in DOMAIN host'[lastCall'.container].kids :
                          host'[lastCall'.container].kids[i] = n
              /\ DOMAIN context'.hooks.state \subseteq MountedPaths'
              /\ \A p \in DOMAIN context'.hooks.state :
                   context'.hooks.state[p].id >= context.nextArr
              /\ StateSlots(context'.hooks.state, <<"0">>) = <<Num(0), Num(0)>>
              /\ context'.hooks.visited = {}
              /\ context'.hooks.componentStack = <<>>
              /\ \A i \in DOMAIN context'.effects.queue :
                   /\ context'.effects.queue[i] \in obs.called'
                   /\ \A j \in DOMAIN context'.effects.queue :
                        context'.effects.queue[j] = context'.effects.queue[i] => j = i
              /\ obs.ran' = {} /\ obs.lastRun' = obs.lastRun
              /\ obs.nextExec' = obs.nextExec
              /\ RendersPending' = RendersPending]_vars
\* setup has replaced a mounted tree by the tree of its root node
C16_Witness ==
  /\ lastCall.kind = "setup"
  /\ lastCall.container # 0 /\ lastCall.rootNode.type # "null"
  /\ obs.justRendered /\ obs.passDone
  /\ prev.instance.kind # "null"
  /\ Len(prev.dom[1].kids) > 0
  /\ prev.state # <<>>

(***************************************************************************)
(* C17  Stale setter is a no-op.  A setter called when the Hook Store has  *)
(* no entry for its Path changes neither the Hook Store nor any other core *)
(* state nor the host tree, and requests no render pass.                   *)
(***************************************************************************)
C17_StaleSetterNoOp ==
  [][(app.sets' # app.sets /\ lastCall'.deleted) =>
       UNCHANGED <<host, context, scheduler>>]_vars

(***************************************************************************)
(* C18  Host order invariant.  After every completed render pass the       *)
(* container's child host nodes are the host nodes projected by the root   *)
(* Instance, and the child host nodes of every Host Instance are the       *)
(* concatenation, in child order, of the host nodes projected by its child *)
(* Instances; every host node that has the container or a Host Instance's  *)
(* node as parent is one of these children.                                *)
(***************************************************************************)
C18_HostOrder ==
  PassCompleted =>
    /\ host[context.root.container].kids = getDomNodes(context.root.instance)
    /\ \A n \in Instances(context.root.instance) :
         n.kind = HOST => host[n.dom].kids = DomNodesOfChildren(n.children, 1)
    /\ \A d \in DOMAIN host :
         (host[d].parent # 0) => \E i \in DOMAIN host[host[d].parent].kids :
                                    host[host[d].parent].kids[i] = d

(***************************************************************************)
(* C19  No double cleanup.  Each cleanup function returned by an execution *)
(* of an effect is invoked at most once over the whole run (stated for the *)
(* runs in which nothing threw).                                           *)
(***************************************************************************)
C19_NoDoubleCleanup ==
  obs.errors = 0 => \A f \in DOMAIN obs.cleanupOf : CallsOf(f) <= 1

(***************************************************************************)
(* C20  The active-invocation stack is balanced.  Between render passes    *)
(* the stack is empty, and every pass, whether it ran to its end or a      *)
(* component threw, popped as many Paths as it pushed.                     *)
(***************************************************************************)
C20_StackBalanced ==
  /\ context.hooks.componentStack = <<>>
  /\ obs.pushes = obs.pops
\* a pass in which a component threw below another component
C20_Witness ==
  /\ obs.justRendered
  /\ obs.threw # {}
  /\ obs.pushes >= 2

\* the Path the child at position i (from 1) of the Instance n should have
PathOfChild(n, i) ==
  Append(n.path, IF n.children[i].key.t # "null"
                   THEN KeyToString(n.children[i].key) ELSE NumToString(i - 1))

(***************************************************************************)
(* C21  Path invariant.  After every completed render pass the root        *)
(* Instance has the Path 0 and the Path of every other Instance is its     *)
(* parent's Path extended by its key, or by its index among the parent's   *)
(* children when it has no key (stated for the runs in which nothing       *)
(* threw).                                                                 *)
(***************************************************************************)
C21_PathInvariant ==
  (PassCompleted /\ obs.errors = 0 /\ context.root.instance.kind # "null") =>
    /\ context.root.instance.path = <<"0">>
    /\ \A n \in Instances(context.root.instance) :
         \A i \in DOMAIN n.children :
           n.children[i].kind # "null" => n.children[i].path = PathOfChild(n, i)

\* the effect flushes waiting in the microtask queue
FlushesPending ==
  Cardinality({i \in DOMAIN scheduler.microtasks :
                 scheduler.microtasks[i] = "executeEffects"})
\* the step is an effect flush
FlushStep ==
  /\ scheduler.microtasks # <<>>
  /\ Head(scheduler.microtasks) = "executeEffects"
  /\ scheduler.microtasks' = Tail(scheduler.microtasks)

LiveEntries ==
  SelectSeq(context.effects.queue,
            LAMBDA e : /\ e.path \in DOMAIN context.hooks.state
                       /\ e.cursor < Len(context.hooks.state[e.path].slots)
                       /\ IsEffectHook(context.hooks.state[e.path].slots[e.cursor + 1]))

\* the effect executions of the current flush, in order
EffectsLogged == SelectSeq(obs.log, LAMBDA x : x.op = "effect")

\* the cleanup calls of the current pass or flush, in order
CleanupsLogged == SelectSeq(obs.log, LAMBDA x : x.op = "cleanup")

\* a render pass runs
RenderStep ==
  /\ scheduler.microtasks # <<>>
  /\ Head(scheduler.microtasks) = "render"
  /\ scheduler.microtasks' # scheduler.microtasks

\* C23: an exception thrown by an effect or by a cleanup function never
\* leaves the flush or the pass; a flush still executes every queued effect
\* in queue order and leaves the record of a throwing effect with a null
\* cleanup; a pass still calls every cleanup stored under the Paths it removes.
C23_ExceptionsIsolated ==
  [][/\ obs.errors' = obs.errors
     /\ FlushStep =>
          /\ [i \in DOMAIN EffectsLogged' |-> EffectsLogged'[i].slot] = LiveEntries
          /\ \A i \in DOMAIN LiveEntries :
               context.hooks.state[LiveEntries[i].path].slots[LiveEntries[i].cursor + 1].effect.throws
                 => context'.hooks.state[LiveEntries[i].path].slots[LiveEntries[i].cursor + 1].cleanup = Null
     /\ RenderStep =>
          \A p \in (MountedPaths \ MountedPaths') \cap DOMAIN context.hooks.state :
            \A i \in DOMAIN context.hooks.state[p].slots :
              (/\ IsEffectHook(context.hooks.state[p].slots[i])
               /\ context.hooks.state[p].slots[i].cleanup.t = "function")
                => \E j \in DOMAIN obs.log' :
                     /\ obs.log'[j].op = "cleanup"
                     /\ obs.log'[j].exec = context.hooks.state[p].slots[i].cleanup.exec]_vars

\* a pass called a throwing cleanup and another cleanup after it, and the
\* flush before it executed a throwing effect whose record holds no cleanup
C23_Witness ==
  /\ \E i, j \in DOMAIN CleanupsLogged : i < j /\ CleanupsLogged[i].throws
  /\ \E e \in DOMAIN obs.lastRun :
       /\ obs.lastRun[e].throws
       /\ e.path \in DOMAIN context.hooks.state
       /\ context.hooks.state[e.path].slots[e.cursor + 1].cleanup = Null
  /\ obs.errors = 0

\* the record of Effect Queue entry e in the Hook Store
HookOf(e) == context.hooks.state[e.path].slots[e.cursor + 1]

\* C24: a flush executes, for every queued effect, the closure passed at the
\* slot's most recent useEffect call; the cleanup the record held is called
\* immediately before it and nothing else is; afterwards the record holds the
\* cleanup function this execution returned, or null if it threw.
C24_LatestClosureAfterCleanup ==
  [][FlushStep =>
       \A e \in Range(LiveEntries) :
         \E i \in DOMAIN obs.log' :
            /\ obs.log'[i].op = "effect"
            /\ obs.log'[i].slot = e
            /\ obs.log'[i].effect = obs.passed[e]
            /\ HookOf(e).cleanup.t = "function" =>
                 /\ i > 1
                 /\ obs.log'[i - 1].op = "cleanup"
                 /\ obs.log'[i - 1].exec = HookOf(e).cleanup.exec
                 /\ i > 2 => obs.log'[i - 2].op = "effect"
            /\ HookOf(e).cleanup.t # "function" =>
                 (i > 1 => obs.log'[i - 1].op = "effect")
            /\ IF obs.passed[e].throws
                 THEN HookOf(e)'.cleanup = Null
                 ELSE /\ HookOf(e)'.cleanup.t = "function"
                      /\ HookOf(e)'.cleanup.exec \notin DOMAIN obs.cleanupOf
                      /\ obs.cleanupOf'[HookOf(e)'.cleanup.exec] = e]_vars

\* a flush has called a stored cleanup and then executed the effect of the
\* same slot, whose record now holds the cleanup of the new execution
C24_Witness ==
  \E i \in DOMAIN obs.log :
    /\ i > 1
    /\ obs.log[i].op = "effect"
    /\ obs.log[i - 1].op = "cleanup"
    /\ obs.cleanupOf[obs.log[i - 1].exec] = obs.log[i].slot
    /\ obs.log[i].effect = obs.passed[obs.log[i].slot]
    /\ HookOf(obs.log[i].slot).cleanup.t = "function"
    /\ HookOf(obs.log[i].slot).cleanup.exec # obs.log[i - 1].exec

\* C25: an Effect Queue entry leaves the queue only by being executed, or
\* because its component is no longer mounted; a render pass that runs before
\* the pending flush loses no effect of a component that stays mounted.
C25_NoEffectLost ==
  [][obs.errors' = obs.errors =>
       \A e \in Range(context.effects.queue) :
         \/ e \in Range(context'.effects.queue)
         \/ RunsOf(e)' = RunsOf(e) + 1
         \/ e.path \notin MountedPaths']_vars

\* C26: after a render pass no two children of one parent have the same
\* Path, whatever the mix of keyed and unkeyed siblings, and no two Component
\* Instances of the tree have the same Path, so none share a Hook Store entry.
C26_SiblingPathsDistinct ==
  (PassCompleted /\ obs.errors = 0 /\ context.root.instance.kind # "null") =>
    /\ \A n \in Instances(context.root.instance) :
         \A i, j \in DOMAIN n.children :
           (i # j /\ n.children[i].kind # "null" /\ n.children[j].kind # "null")
             => n.children[i].path # n.children[j].path
    /\ \A i, j \in DOMAIN ComponentPaths(context.root.instance) :
         i # j => ComponentPaths(context.root.instance)[i] # ComponentPaths(context.root.instance)[j]

\* C28: a render pass without exception initialises no state slot of a
\* component that stays mounted: the state hook returns what the Hook Store
\* held when the pass started (the value last written by the setter, undefined
\* included), and a pass that mounts no component calls no lazy initialiser.
C28_InitialisedOnce ==
  [][(RenderStep /\ obs.errors' = obs.errors) =>
       /\ \A k \in DOMAIN app.setters \cap DOMAIN app'.setters :
            (/\ k[1] \in MountedPaths \cap MountedPaths'
             /\ k[1] \notin obs'.mounting
             /\ k[1] \in DOMAIN context.hooks.state
             /\ k[2] < Len(context.hooks.state[k[1]].slots))
              => app'.setters[k].state = StoredValue(context.hooks.state, k)
       /\ obs'.mounting = {} => obs'.lazyCalls = obs.lazyCalls]_vars

\* a setter has written a value that the state hook has not returned yet
WrittenNotReturned ==
  \E k \in DOMAIN app.setters :
    /\ k[1] \in MountedPaths \cap DOMAIN context.hooks.state
    /\ context.hooks.state[k[1]].id = app.setters[k].hooks
    /\ StoredValue(context.hooks.state, k) # app.setters[k].state

\* an update pass has completed in which the deps of an effect changed
DepsChangedInPass == PassCompleted /\ obs.kind = "update" /\ obs.changed # {}

\* the effects whose deps changed in the last pass have run since
ChangedEffectsRan == obs.changed \subseteq obs.ran

\* C27: when the scheduled microtasks are all executed, a value written by a
\* setter is eventually returned by the state hook in a render pass, the
\* effects whose deps changed in an update pass run after that pass, and the
\* system ends with no render and no flush pending.
C27_UpdatesLive ==
  /\ WrittenNotReturned ~> ~WrittenNotReturned
  /\ DepsChangedInPass ~> ChangedEffectsRan
  /\ <>[]Settled
====
